---- MODULE Spec2Model ----
(***************************************************************************)
(* One-way directory synchronisation (veeam_task.py).                      *)
(*                                                                         *)
(* The filesystem is one partial function fs from absolute paths (tuples   *)
(* of names) to nodes; a path outside DOMAIN fs does not exist.  The two   *)
(* roots are the program arguments --source and --replica.  One run of     *)
(* sync_folders is a sequence of steps: the root checks, then one step per *)
(* directory listing of os.walk and one step per entry of the loop body,   *)
(* first over the source tree and then over the replica tree.              *)
(***************************************************************************)
EXTENDS Integers, Sequences, FiniteSets, TLC

VARIABLES
    fs,             \* the filesystem: absolute path -> node
    source,         \* args.source
    replica,        \* args.replica
    use_checksum,   \* args.checksum
    pc,             \* "idle" (time.sleep), "source", "replica", "dead" (process ended)
    stack,          \* os.walk: directories still to be listed
    entries,        \* dirs + files of the listing under iteration, still to process
    source_files,   \* the set filled by traverse_source_files
    replica_files,  \* the set filled by traverse_replica_files
    log,            \* records emitted by logging since the current run began
    ops,            \* Entry Operations invoked since the current run began
    fs0,            \* the filesystem as it was when the current run began
    last,           \* how the most recent run ended ("running" while it runs)
    before,         \* what preceded the current run: the outcome of the run before
                    \* it, the number of its operations, the paths changed in between
    touched,        \* paths the user changed since the last run ended
    rewrites        \* number of rewrites so far (bounded by MaxRewrites)

vars == <<fs, source, replica, use_checksum, pc, stack, entries, source_files,
          replica_files, log, ops, fs0, last, before, touched, rewrites>>

(***************************************************************************)
(* Bounds of the model.                                                    *)
(***************************************************************************)
MaxRewrites == 1    \* rewrites of source files by the user between runs
MaxMtime == 2       \* latest modification time a rewrite can stamp
MaxPathLen == 6     \* longest path (in names) the platform accepts (PATH_MAX)
MaxWalkDepth == 3   \* deepest directory below its root that os.walk can list
                    \* (one generator frame per level, sys.getrecursionlimit)

(***************************************************************************)
(* Nodes.  A file has content (a tuple of bytes) and a modification time;  *)
(* st_size is the length of the content.  For a directory stat reports the *)
(* platform's directory size and a modification time; the model keeps one  *)
(* value of each for all directories.                                      *)
(***************************************************************************)
DirSize == 2
DirMtime == 1

Dir == [kind |-> "dir", content |-> <<>>, mtime |-> DirMtime]
File(c, t) == [kind |-> "file", content |-> c, mtime |-> t]

Contents == {<<1>>, <<2>>, <<1, 1>>}

\* os.path.exists / isfile / isdir.  <<>> is the filesystem's own root.
exists(f, p) == p = <<>> \/ p \in DOMAIN f
isfile(f, p) == p \in DOMAIN f /\ f[p].kind = "file"
isdir(f, p) == p = <<>> \/ (p \in DOMAIN f /\ f[p].kind = "dir")

\* os.path.join(root, entry) and os.path.dirname
join(root, rel) == root \o rel
dirname(p) == SubSeq(p, 1, Len(p) - 1)

IsPrefix(d, p) == Len(d) <= Len(p) /\ SubSeq(p, 1, Len(d)) = d

\* length of the longest common prefix of two paths
RECURSIVE CommonLen(_, _)
CommonLen(p, q) ==
    IF p = <<>> \/ q = <<>> \/ Head(p) # Head(q) THEN 0
    ELSE 1 + CommonLen(Tail(p), Tail(q))

\* os.path.relpath(path, start): ".." for every component of start below the
\* common prefix, then the rest of path
relpath(path, start) ==
    LET k == CommonLen(path, start)
    IN  [i \in 1..(Len(start) - k) |-> ".."] \o SubSeq(path, k + 1, Len(path))

\* os.path.getsize / os.path.getmtime of an existing path
getsize(f, p) == IF f[p].kind = "dir" THEN DirSize ELSE Len(f[p].content)
getmtime(f, p) == f[p].mtime

\* the entries os.scandir(d) lists
Children(f, d) == {p \in DOMAIN f : Len(p) = Len(d) + 1 /\ dirname(p) = d}

\* f without p and everything below it
Without(f, p) == [q \in {x \in DOMAIN f : ~IsPrefix(p, x)} |-> f[q]]

\* f with node n at p
With(f, p, n) == [q \in DOMAIN f \cup {p} |-> IF q = p THEN n ELSE f[q]]

\* the entries of f below root
Under(f, root) == {p \in DOMAIN f : IsPrefix(root, p) /\ p # root}

\* every order in which a listing can return the set S
Orders(S) == {s \in [1..Cardinality(S) -> S] : \A i, j \in DOMAIN s : s[i] = s[j] => i = j}

(***************************************************************************)
(* Equality oracle.                                                        *)
(***************************************************************************)
\* hashlib.md5 over the whole content, as its hex digest: a value determined
\* by the content; on the contents of this model no two digests collide.
calculate_hash(f, p) == <<"md5", f[p].content>>

\* open(file_path, "rb") raises for a directory or a missing path
hash_raises(f, p) == ~isfile(f, p)

\* (mutant) only the sizes are compared
sizes_identical(f, file1, file2) == getsize(f, file1) = getsize(f, file2)

are_files_metadata_identical(f, file1, file2) ==
    /\ getsize(f, file1) = getsize(f, file2)
    /\ getmtime(f, file1) = getmtime(f, file2)

\* (mutant) the metadata are compared first in both modes, the digests only
\* when the metadata agree
metadata_before_checksum(f, file1, file2, checksum) ==
    IF ~are_files_metadata_identical(f, file1, file2) THEN "false"
    ELSE IF ~checksum THEN "true"
    ELSE IF hash_raises(f, file1) \/ hash_raises(f, file2) THEN "raise"
    ELSE IF calculate_hash(f, file1) = calculate_hash(f, file2) THEN "true"
    ELSE "false"

\* result "true" / "false", or "raise" when calculate_hash cannot open a file
are_files_identical(f, file1, file2, checksum) ==
    IF checksum
    THEN IF hash_raises(f, file1) \/ hash_raises(f, file2) THEN "raise"
         ELSE IF calculate_hash(f, file1) = calculate_hash(f, file2) THEN "true"
         ELSE "false"
    ELSE IF ~are_files_metadata_identical(f, file1, file2) THEN "false"
         ELSE "true"

(***************************************************************************)
(* Entry Operations.  Each yields [err, fs]: err is TRUE when the platform *)
(* call raises, and then fs is what the call left behind.                  *)
(***************************************************************************)
Ok(f) == [err |-> FALSE, fs |-> f]
Raise(f) == [err |-> TRUE, fs |-> f]

\* os.makedirs(p, exist_ok): creates missing ancestors first, then p; mkdir
\* raises for a path that is too long (ENAMETOOLONG)
RECURSIVE makedirs(_, _, _)
makedirs(f, p, exist_ok) ==
    LET head == dirname(p)
        up == IF head # <<>> /\ ~exists(f, head)
              THEN makedirs(f, head, exist_ok) ELSE Ok(f)
    IN  IF up.err THEN up
        ELSE IF Len(p) > MaxPathLen THEN Raise(up.fs)
        ELSE IF exists(up.fs, p)
             THEN IF exist_ok /\ isdir(up.fs, p) THEN Ok(up.fs) ELSE Raise(up.fs)
        ELSE IF ~isdir(up.fs, head) THEN Raise(up.fs)
        ELSE Ok(With(up.fs, p, Dir))

\* (mutant) shutil.copy in place of copy2: the copy is stamped with the time
\* of the copy, not with the source's modification time
copy_without_times(f, src, dst) ==
    LET target == IF isdir(f, dst) THEN Append(dst, src[Len(src)]) ELSE dst
    IN  IF ~isfile(f, src) \/ Len(target) > MaxPathLen THEN Raise(f)
        ELSE IF isdir(f, target) \/ ~isdir(f, dirname(target)) THEN Raise(f)
        ELSE Ok(With(f, target, File(f[src].content, MaxMtime + 1)))

\* shutil.copy2(src, dst): content and timestamps; into dst when dst is a
\* directory; raises when src is no regular file, dst's directory is missing
\* or the path is too long
copy2(f, src, dst) ==
    LET target == IF isdir(f, dst) THEN Append(dst, src[Len(src)]) ELSE dst
    IN  IF ~isfile(f, src) \/ Len(target) > MaxPathLen THEN Raise(f)
        ELSE IF isdir(f, target) \/ ~isdir(f, dirname(target)) THEN Raise(f)
        ELSE Ok(With(f, target, File(f[src].content, f[src].mtime)))

create_directory(f, replica_dir) == makedirs(f, replica_dir, FALSE)

create_file(f, source_file, replica_file) ==
    LET made == makedirs(f, dirname(replica_file), TRUE)
    IN  IF made.err THEN made ELSE copy2(made.fs, source_file, replica_file)

\* (mutant) the copy goes from the replica to the source
copy_to_source(f, source_file, replica_file) == copy2(f, replica_file, source_file)

copy_file(f, source_file, replica_file) == copy2(f, source_file, replica_file)

\* os.remove raises for a directory or a missing path
delete_file(f, replica_file) ==
    IF isfile(f, replica_file) THEN Ok(Without(f, replica_file)) ELSE Raise(f)

\* shutil.rmtree raises for a path that is no directory
delete_directory(f, replica_dir) ==
    IF replica_dir \in DOMAIN f /\ f[replica_dir].kind = "dir"
    THEN Ok(Without(f, replica_dir)) ELSE Raise(f)

\* the message each operation logs after it succeeded
Message(op) ==
    CASE op = "create_directory" -> "Created directory"
      [] op = "create_file" -> "Created file"
      [] op = "copy_file" -> "Copied file"
      [] op = "delete_file" -> "Deleted file"
      [] op = "delete_directory" -> "Deleted directory"

Info(msg, p) == [level |-> "INFO", msg |-> msg, path |-> p]
Error(msg, p) == [level |-> "ERROR", msg |-> msg, path |-> p]

\* the effect of Entry Operation op on f
Perform(op, f, src, dst) ==
    CASE op = "create_directory" -> create_directory(f, dst)
      [] op = "create_file" -> create_file(f, src, dst)
      [] op = "copy_file" -> copy_file(f, src, dst)
      [] op = "delete_file" -> delete_file(f, dst)
      [] op = "delete_directory" -> delete_directory(f, dst)


EntryOps == {"create_directory", "create_file", "copy_file", "delete_file", "delete_directory"}

\* An Entry Operation that the run invokes may also fail for a reason outside
\* the two trees (permission denied, disk full): io = FALSE is that outcome.
Invoke(op, f, src, dst, io) ==
    IF op = "none" THEN Ok(f)
    ELSE IF op = "raise" \/ ~io THEN Raise(f)
    ELSE Perform(op, f, src, dst)

IoOutcomes(op) == IF op \in EntryOps THEN BOOLEAN ELSE {TRUE}

(***************************************************************************)
(* The decisions of the two passes.                                        *)
(***************************************************************************)
\* (mutant) an existing replica file is never compared nor updated
SourceDecisionNoUpdate(f, source_file_path, replica_file_path, checksum) ==
    IF ~exists(f, replica_file_path)
    THEN IF isfile(f, source_file_path) THEN "create_file" ELSE "create_directory"
    ELSE "none"

\* traverse_source_files, the body for one entry: the operation it invokes,
\* "none", or "raise" when the comparison itself raises
SourceDecision(f, source_file_path, replica_file_path, checksum) ==
    IF ~exists(f, replica_file_path)
    THEN IF isfile(f, source_file_path) THEN "create_file" ELSE "create_directory"
    ELSE IF isfile(f, replica_file_path)
         THEN LET same == are_files_identical(f, source_file_path, replica_file_path, checksum)
              IN  IF same = "raise" THEN "raise"
                  ELSE IF same = "false" THEN "copy_file" ELSE "none"
    ELSE "none"

\* (mutant) the replica path itself is looked up among the source paths
IsOrphanAbsolute(replica_file_path, visited, src, rep) ==
    replica_file_path \notin visited

\* the membership test of traverse_replica_files
IsOrphan(replica_file_path, visited, src, rep) ==
    relpath(replica_file_path, rep) \notin {relpath(x, src) : x \in visited}

\* (mutant) orphaned directories are left alone
ReplicaDecisionFilesOnly(f, replica_file_path, visited, src, rep) ==
    IF IsOrphan(replica_file_path, visited, src, rep) /\ isfile(f, replica_file_path)
    THEN "delete_file" ELSE "none"

\* traverse_replica_files, the body for one entry
ReplicaDecision(f, replica_file_path, visited, src, rep) ==
    IF IsOrphan(replica_file_path, visited, src, rep)
    THEN IF isfile(f, replica_file_path) THEN "delete_file" ELSE "delete_directory"
    ELSE "none"

\* (mutant) only the source root is checked before reconciling
SourceRootPresent(f, src, rep) == exists(f, src)

\* sync_folders: both roots must exist
RootsPresent(f, src, rep) == exists(f, src) /\ exists(f, rep)

\* the error records sync_folders emits for missing roots, in order
RootErrors(f, src, rep) ==
    (IF ~exists(f, src) THEN <<Error("Source directory does not exist", src)>> ELSE <<>>)
    \o (IF ~exists(f, rep) THEN <<Error("Replica directory does not exist", rep)>> ELSE <<>>)

(***************************************************************************)
(* Initial states: both roots are top-level directories S and R; below     *)
(* each, any tree over the shape a, b, a/c, a/c/d.  A root may be missing. *)
(***************************************************************************)
Shape == {<<"a">>, <<"b">>, <<"a", "c">>, <<"a", "c", "d">>}
None == [kind |-> "none", content |-> <<>>, mtime |-> 0]

SourceFileSet == {File(<<1>>, 1)}
ReplicaFileSet == {File(<<1>>, 1), File(<<2>>, 1), File(<<1>>, 2), File(<<1, 1>>, 1)}

Trees(F) ==
    {t \in [Shape -> F \cup {Dir, None}] :
        \A p \in Shape : (Len(p) > 1 /\ t[p] # None) => t[dirname(p)] = Dir}

NoFs == [p \in {} |-> Dir]

\* the tree t placed under the directory root
Place(root, t) ==
    [p \in {root} \cup {join(root, r) : r \in {x \in Shape : t[x] # None}} |->
        IF p = root THEN Dir ELSE t[relpath(p, root)]]

InitFs ==
    {Place(<<"S">>, ts) @@ Place(<<"R">>, tr) : ts \in Trees(SourceFileSet), tr \in Trees(ReplicaFileSet)}
    \cup {Place(<<"S">>, ts) : ts \in Trees(SourceFileSet)}
    \cup {Place(<<"R">>, tr) : tr \in Trees(ReplicaFileSet)}
    \cup {NoFs}

Init ==
    /\ source = <<"S">>
    /\ replica = <<"R">>
    /\ use_checksum \in BOOLEAN
    /\ fs \in InitFs
    /\ pc = "idle"
    /\ stack = <<>>
    /\ entries = <<>>
    /\ source_files = {}
    /\ replica_files = {}
    /\ log = <<>>
    /\ ops = <<>>
    /\ fs0 = fs
    /\ last = "none"
    /\ before = [outcome |-> "none", nops |-> 0, rewritten |-> {}]
    /\ touched = {}
    /\ rewrites = 0

(***************************************************************************)
(* main and sync_folders.                                                  *)
(***************************************************************************)
\* (mutant) the set of visited source paths is kept from the run before
BeginRunKeepsVisited ==
    /\ ops' = <<>>
    /\ fs0' = fs
    /\ before' = [outcome |-> last, nops |-> Len(ops), rewritten |-> touched]
    /\ touched' = {}
    /\ source_files' = source_files
    /\ replica_files' = {}
    /\ entries' = <<>>

\* sync_folders is called: nothing of the run before is kept (source_files
\* and replica_files are locals of the call)
BeginRun ==
    /\ ops' = <<>>
    /\ fs0' = fs
    /\ before' = [outcome |-> last, nops |-> Len(ops), rewritten |-> touched]
    /\ touched' = {}
    /\ source_files' = {}
    /\ replica_files' = {}
    /\ entries' = <<>>

\* (mutant) a missing root ends the program after the errors are logged
SyncSkipExits ==
    /\ pc = "idle"
    /\ ~RootsPresent(fs, source, replica)
    /\ BeginRun
    /\ log' = <<Info("Start syncing folders", <<>>)>> \o RootErrors(fs, source, replica)
    /\ last' = "skipped"
    /\ stack' = <<>>
    /\ pc' = "dead"
    /\ UNCHANGED <<fs, source, replica, use_checksum, rewrites>>

\* main's loop calls sync_folders; a root is missing: errors are logged and
\* the call returns; main logs the end and sleeps
SyncSkip ==
    /\ pc = "idle"
    /\ ~RootsPresent(fs, source, replica)
    /\ BeginRun
    /\ log' = <<Info("Start syncing folders", <<>>)>> \o RootErrors(fs, source, replica)
              \o <<Info("End syncing folders", <<>>)>>
    /\ last' = "skipped"
    /\ stack' = <<>>
    /\ UNCHANGED <<fs, source, replica, use_checksum, pc, rewrites>>

\* main's loop calls sync_folders; both roots exist: the source pass begins
SyncStart ==
    /\ pc = "idle"
    /\ RootsPresent(fs, source, replica)
    /\ BeginRun
    /\ log' = <<Info("Start syncing folders", <<>>)>> \o RootErrors(fs, source, replica)
    /\ last' = "running"
    /\ pc' = "source"
    /\ stack' = <<source>>
    /\ UNCHANGED <<fs, source, replica, use_checksum, rewrites>>

\* (mutant) the whole walk is listed when the run begins, from the tree as it
\* was then
WalkSnapshot ==
    LET top == Head(stack)
    IN  IF ~isdir(fs0, top)
        THEN stack' = Tail(stack) /\ entries' = <<>>
        ELSE \E dirs \in Orders({p \in Children(fs0, top) : fs0[p].kind = "dir"}),
                files \in Orders({p \in Children(fs0, top) : fs0[p].kind # "dir"}) :
                /\ entries' = dirs \o files
                /\ stack' = dirs \o Tail(stack)

\* os.walk takes the next directory and lists it: dirs, then files, each in
\* the order the platform returns; a directory that cannot be listed is skipped
Walk ==
    LET top == Head(stack)
    IN  IF ~isdir(fs, top)
        THEN stack' = Tail(stack) /\ entries' = <<>>
        ELSE \E dirs \in Orders({p \in Children(fs, top) : fs[p].kind = "dir"}),
                files \in Orders({p \in Children(fs, top) : fs[p].kind # "dir"}) :
                /\ entries' = dirs \o files
                /\ stack' = dirs \o Tail(stack)

\* os.walk of root resumes to list the next directory; its generators are
\* nested one per level and beyond the recursion limit the resumption raises
\* RecursionError, which nothing catches
WalkStep(root) ==
    IF Len(Head(stack)) - Len(root) > MaxWalkDepth
    THEN pc' = "dead" /\ last' = "failed" /\ UNCHANGED <<stack, entries>>
    ELSE Walk /\ UNCHANGED <<pc, last>>

SourceWalk ==
    /\ pc = "source"
    /\ entries = <<>>
    /\ stack # <<>>
    /\ WalkStep(source)
    /\ UNCHANGED <<fs, source, replica, use_checksum, source_files, replica_files,
                   log, ops, fs0, before, touched, rewrites>>

\* (mutant) an operation that raised is passed over and the loop goes on
OutcomeSwallowed(op, r, path) ==
    /\ fs' = r.fs
    /\ ops' = IF op \in EntryOps
              THEN Append(ops, [op |-> op, path |-> path, ok |-> ~r.err]) ELSE ops
    /\ log' = IF op \in EntryOps /\ ~r.err
              THEN Append(log, Info(Message(op), path)) ELSE log
    /\ pc' = pc /\ last' = last /\ entries' = Tail(entries)

\* what one entry's Entry Operation leaves in fs, ops and log, and the end of
\* the process when it raised
Outcome(op, r, path) ==
    /\ fs' = r.fs
    /\ ops' = IF op \in EntryOps
              THEN Append(ops, [op |-> op, path |-> path, ok |-> ~r.err]) ELSE ops
    /\ log' = IF op \in EntryOps /\ ~r.err
              THEN Append(log, Info(Message(op), path)) ELSE log
    /\ IF r.err
       THEN pc' = "dead" /\ last' = "failed" /\ entries' = entries
       ELSE pc' = pc /\ last' = last /\ entries' = Tail(entries)

\* traverse_source_files: the loop body for the next entry
SourceEntry ==
    /\ pc = "source"
    /\ entries # <<>>
    /\ LET source_file_path == Head(entries)
           replica_file_path == join(replica, relpath(source_file_path, source))
           op == SourceDecision(fs, source_file_path, replica_file_path, use_checksum)
       IN  /\ source_files' = source_files \cup {source_file_path}
           /\ \E io \in IoOutcomes(op) :
                Outcome(op, Invoke(op, fs, source_file_path, replica_file_path, io),
                        replica_file_path)
    /\ UNCHANGED <<source, replica, use_checksum, stack, replica_files, fs0, before,
                   touched, rewrites>>

\* (mutant) the pass is taken as finished when the current listing is done
ListingFinished == entries = <<>>

\* the source walk is exhausted
SourcePassFinished == entries = <<>> /\ stack = <<>>

\* sync_folders: traverse_source_files returned, traverse_replica_files begins
SourceDone ==
    /\ pc = "source"
    /\ SourcePassFinished
    /\ pc' = "replica"
    /\ stack' = <<replica>>
    /\ UNCHANGED <<fs, source, replica, use_checksum, entries, source_files, replica_files,
                   log, ops, fs0, last, before, touched, rewrites>>

ReplicaWalk ==
    /\ pc = "replica"
    /\ entries = <<>>
    /\ stack # <<>>
    /\ WalkStep(replica)
    /\ UNCHANGED <<fs, source, replica, use_checksum, source_files, replica_files,
                   log, ops, fs0, before, touched, rewrites>>

\* traverse_replica_files: the loop body for the next entry
ReplicaEntry ==
    /\ pc = "replica"
    /\ entries # <<>>
    /\ LET replica_file_path == Head(entries)
           op == ReplicaDecision(fs, replica_file_path, source_files, source, replica)
       IN  /\ replica_files' = replica_files \cup {replica_file_path}
           /\ \E io \in IoOutcomes(op) :
                Outcome(op, Invoke(op, fs, replica_file_path, replica_file_path, io),
                        replica_file_path)
    /\ UNCHANGED <<source, replica, use_checksum, stack, source_files, fs0, before,
                   touched, rewrites>>

\* traverse_replica_files and sync_folders return; main logs the end and sleeps
SyncEnd ==
    /\ pc = "replica"
    /\ entries = <<>>
    /\ stack = <<>>
    /\ pc' = "idle"
    /\ last' = "completed"
    /\ log' = Append(log, Info("End syncing folders", <<>>))
    /\ UNCHANGED <<fs, source, replica, use_checksum, stack, entries, source_files,
                   replica_files, ops, fs0, before, touched, rewrites>>

\* the process is stopped from outside in the middle of a run
Interrupt ==
    /\ pc \in {"source", "replica"}
    /\ pc' = "dead"
    /\ last' = "interrupted"
    /\ UNCHANGED <<fs, source, replica, use_checksum, stack, entries, source_files,
                   replica_files, log, ops, fs0, before, touched, rewrites>>

\* the program is started again: main sets logging up (the log file is
\* truncated) and enters its loop
Restart ==
    /\ pc = "dead"
    /\ pc' = "idle"
    /\ stack' = <<>>
    /\ entries' = <<>>
    /\ source_files' = {}
    /\ replica_files' = {}
    /\ log' = <<>>
    /\ ops' = <<>>
    /\ fs0' = fs
    /\ UNCHANGED <<fs, source, replica, use_checksum, last, before, touched, rewrites>>

(***************************************************************************)
(* The user, between runs.                                                 *)
(***************************************************************************)
\* a source file that the replica mirrors is rewritten with other content
Rewrite ==
    /\ pc = "idle"
    /\ last = "completed"
    /\ rewrites < MaxRewrites
    /\ \E sp \in DOMAIN fs :
        /\ IsPrefix(source, sp)
        /\ isfile(fs, sp)
        /\ LET rel == relpath(sp, source)
               rp == join(replica, rel)
           IN  /\ isfile(fs, rp)
               /\ fs[rp].content = fs[sp].content
               /\ \E c \in Contents \ {fs[sp].content}, t \in fs[sp].mtime..MaxMtime :
                    fs' = With(fs, sp, File(c, t))
               /\ touched' = touched \cup {sp}
    /\ rewrites' = rewrites + 1
    /\ UNCHANGED <<source, replica, use_checksum, pc, stack, entries, source_files,
                   replica_files, log, ops, fs0, last, before>>

\* a source entry is removed, a directory with everything below it
Remove ==
    /\ pc = "idle"
    /\ last = "completed"
    /\ rewrites < MaxRewrites
    /\ \E sp \in Under(fs, source) :
        /\ fs' = Without(fs, sp)
        /\ touched' = touched \cup {sp}
    /\ rewrites' = rewrites + 1
    /\ UNCHANGED <<source, replica, use_checksum, pc, stack, entries, source_files,
                   replica_files, log, ops, fs0, last, before>>

\* a missing root directory is created (empty)
CreateRoot ==
    /\ pc = "idle"
    /\ \E root \in {source, replica} :
        /\ ~exists(fs, root)
        /\ fs' = With(fs, root, Dir)
        /\ touched' = touched \cup {root}
    /\ UNCHANGED <<source, replica, use_checksum, pc, stack, entries, source_files,
                   replica_files, log, ops, fs0, last, before, rewrites>>

Next ==
    \/ SyncSkip
    \/ SyncStart
    \/ SourceWalk
    \/ SourceEntry
    \/ SourceDone
    \/ ReplicaWalk
    \/ ReplicaEntry
    \/ SyncEnd
    \/ Interrupt
    \/ Restart
    \/ Rewrite
    \/ Remove
    \/ CreateRoot

Spec == Init /\ [][Next]_vars

(***************************************************************************)
(* Vocabulary of the properties.                                           *)
(***************************************************************************)
\* the path with the same relative path under the other root
Twin(p, from, to) == join(to, relpath(p, from))

\* a run has just returned normally and nobody touched the trees since
JustCompleted == pc = "idle" /\ last = "completed" /\ touched = {}

\* the two files are the same for the comparison mode in use
SameForMode(f, sp, rp) ==
    IF use_checksum THEN f[sp].content = f[rp].content
    ELSE Len(f[sp].content) = Len(f[rp].content) /\ f[sp].mtime = f[rp].mtime

\* the replica tree is the source tree: same relative paths, same kinds, and
\* every pair of files the same for the comparison mode
Mirrors(f) ==
    /\ \A sp \in Under(f, source) :
        /\ Twin(sp, source, replica) \in DOMAIN f
        /\ f[Twin(sp, source, replica)].kind = f[sp].kind
        /\ f[sp].kind = "file" => SameForMode(f, sp, Twin(sp, source, replica))
    /\ \A rp \in Under(f, replica) : Twin(rp, replica, source) \in DOMAIN f

Creates == {"create_directory", "create_file", "copy_file"}
Deletes == {"delete_file", "delete_directory"}

\* C1: after a completed run every source entry exists in the replica, a
\* source file as a file the comparison mode judges identical -- stated for
\* every pair of initial trees, type conflicts included
C1_SourceSideConvergence ==
    JustCompleted =>
        \A sp \in Under(fs, source) :
            /\ Twin(sp, source, replica) \in DOMAIN fs
            /\ fs[sp].kind = "file" =>
                /\ fs[Twin(sp, source, replica)].kind = "file"
                /\ SameForMode(fs, sp, Twin(sp, source, replica))

\* C2: after a completed run every replica entry has a source entry at the
\* same relative path (no orphan is left)
C2_NoOrphans ==
    JustCompleted => \A rp \in Under(fs, replica) : Twin(rp, replica, source) \in DOMAIN fs

\* a run completed that found an orphaned directory with nested contents,
\* removed it and kept the mirrored file beside it
C2_Witness ==
    /\ JustCompleted
    /\ <<"R", "a", "c", "d">> \in DOMAIN fs0
    /\ <<"S", "a">> \notin DOMAIN fs0
    /\ <<"R", "a">> \notin DOMAIN fs
    /\ isfile(fs, <<"S", "b">>)
    /\ isfile(fs, <<"R", "b">>)

\* C3: a run that follows a completed run, with no change to either tree in
\* between, invokes no Entry Operation
C3_Idempotence ==
    (before.outcome = "completed" /\ before.rewritten = {} /\ last # "skipped")
        => ops = <<>>

\* a second run completed after a first one that had work to do
C3_Witness ==
    /\ JustCompleted
    /\ before.outcome = "completed"
    /\ before.rewritten = {}
    /\ before.nops >= 3
    /\ \E sp \in Under(fs, source) : fs[sp].kind = "file"

IsErrorRecord(r) == r.level = "ERROR"
HasOp(kinds) == \E i \in 1..Len(ops) : ops[i].op \in kinds

\* C4: a run that finds the source root, the replica root or both missing
\* reconciles nothing (no Entry Operation, the filesystem as it was, no root
\* created), returns normally, and logs exactly one error per missing root,
\* the source's before the replica's
C4_MissingRoots ==
    (last # "none" /\ touched = {} /\ (source \notin DOMAIN fs0 \/ replica \notin DOMAIN fs0))
        => /\ last = "skipped"
           /\ pc = "idle"
           /\ fs = fs0
           /\ ops = <<>>
           /\ SelectSeq(log, IsErrorRecord)
                = (IF source \in DOMAIN fs0 THEN <<>>
                   ELSE <<[level |-> "ERROR", msg |-> "Source directory does not exist",
                           path |-> source]>>)
                  \o (IF replica \in DOMAIN fs0 THEN <<>>
                      ELSE <<[level |-> "ERROR", msg |-> "Replica directory does not exist",
                              path |-> replica]>>)

\* a run was skipped with both roots missing
C4_Witness ==
    /\ last = "skipped"
    /\ touched = {}
    /\ source \notin DOMAIN fs
    /\ replica \notin DOMAIN fs
    /\ Len(log) = 4

\* C5: within a run every delete comes after every create and copy, the
\* source pass deletes nothing, and from the start of the replica pass (so
\* before the first deletion decision) source_files holds every entry of the
\* source tree
C5_PassOrdering ==
    /\ \A i, j \in 1..Len(ops) : (ops[i].op \in Deletes /\ ops[j].op \in Creates) => j < i
    /\ pc = "source" => ~HasOp(Deletes)
    /\ (pc = "replica" \/ HasOp(Deletes)) => source_files = Under(fs0, source)

\* the replica pass is under way after a source pass that created entries,
\* and has deleted some
C5_Witness ==
    /\ pc = "replica"
    /\ entries # <<>>
    /\ HasOp(Creates)
    /\ HasOp(Deletes)
    /\ Cardinality(source_files) >= 3

\* C6: no step removes a replica entry whose relative path exists in the
\* source tree, neither by deleting it nor by deleting a directory above it
C6_MirroredEntryKept ==
    [][\A rp \in Under(fs, replica) :
          Twin(rp, replica, source) \in DOMAIN fs => rp \in DOMAIN fs']_vars

\* a run completed that deleted an orphaned directory and kept a mirrored
\* entry that was there from the start
C6_Witness ==
    /\ JustCompleted
    /\ \E i \in 1..Len(ops) : ops[i].op = "delete_directory" /\ ops[i].ok
    /\ \E rp \in Under(fs0, replica) :
        /\ Twin(rp, replica, source) \in DOMAIN fs0
        /\ Len(rp) >= 3
        /\ rp \in DOMAIN fs

\* C7 as stated: after the replica mirrored a source file and the file was
\* rewritten with other content, the next completed run leaves the replica
\* file with the new content, in metadata mode and in checksum mode
C7_UpdateInEveryMode ==
    (JustCompleted /\ before.outcome = "completed") =>
        \A sp \in before.rewritten \cap DOMAIN fs0 :
            /\ isfile(fs, Twin(sp, source, replica))
            /\ fs[Twin(sp, source, replica)].content = fs[sp].content

\* C7 as amended: the next completed run leaves the replica file with the new
\* content in checksum mode, and in metadata mode when the rewritten file's
\* size or modification time differs from the replica file's; a rewrite that
\* keeps both is left as it was in metadata mode
C7_Update ==
    (JustCompleted /\ before.outcome = "completed") =>
        \A sp \in before.rewritten \cap DOMAIN fs0 :
            LET rp == Twin(sp, source, replica)
            IN  IF \/ use_checksum
                   \/ Len(fs0[sp].content) # Len(fs0[rp].content)
                   \/ fs0[sp].mtime # fs0[rp].mtime
                THEN fs[rp] = fs[sp]
                ELSE fs[rp] = fs0[rp]

\* in metadata mode a rewrite of the same size with a later modification time
\* was copied to the replica
C7_Witness ==
    /\ JustCompleted
    /\ before.outcome = "completed"
    /\ ~use_checksum
    /\ \E sp \in before.rewritten \cap DOMAIN fs0 :
        LET rp == Twin(sp, source, replica)
        IN  /\ Len(fs0[sp].content) = Len(fs0[rp].content)
            /\ fs0[sp].mtime # fs0[rp].mtime
            /\ fs0[sp].content # fs0[rp].content
            /\ fs[rp].content = fs[sp].content

\* C8: the run after an interrupted run, the source tree unchanged, completes
\* with the replica mirroring the source
C8_SelfHealing ==
    (JustCompleted /\ before.outcome = "interrupted" /\ before.rewritten = {})
        => Mirrors(fs)

\* C9: a failed Entry Operation is the last thing its run does: the process
\* ends with the error, no operation follows, and after a failure in the
\* source pass the run has deleted nothing
C9_FailLoud ==
    /\ \A i \in 1..Len(ops) :
        ~ops[i].ok =>
            /\ i = Len(ops)
            /\ pc = "dead"
            /\ last = "failed"
            /\ ops[i].op \in Creates => ~HasOp(Deletes)
    /\ last = "failed" => pc \in {"dead", "idle"}
    /\ (last = "failed" /\ pc = "idle") => ops = <<>>

\* a create or copy failed after other operations of the source pass, and an
\* orphan of the replica is still there
C9_Witness ==
    /\ pc = "dead"
    /\ last = "failed"
    /\ Len(ops) >= 2
    /\ ~ops[Len(ops)].ok
    /\ ops[Len(ops)].op \in Creates
    /\ \E rp \in Under(fs, replica) : Twin(rp, replica, source) \notin DOMAIN fs

\* C10: a skipped run leaves the loop running; a later run that finds both
\* roots is not skipped, and when it completes it has walked the whole source
\* tree and left the replica with exactly the source's relative paths; a run
\* is in progress only between its start and its return
C10_MissingRootRecovery ==
    /\ last = "skipped" => pc = "idle"
    /\ (before.outcome = "skipped" /\ source \in DOMAIN fs0 /\ replica \in DOMAIN fs0)
        => last # "skipped"
    /\ (JustCompleted /\ before.outcome = "skipped") =>
        /\ source_files = Under(fs0, source)
        /\ {relpath(sp, source) : sp \in Under(fs, source)}
             = {relpath(rp, replica) : rp \in Under(fs, replica)}
    /\ (pc \in {"source", "replica"}) <=> (last = "running")

\* the run after a skipped one completed and had work to do
C10_Witness ==
    /\ JustCompleted
    /\ before.outcome = "skipped"
    /\ Len(ops) >= 2

\* the step is the loop body of traverse_source_files for the next entry
SourceEntryStep == pc = "source" /\ entries # <<>> /\ last' # "interrupted"

\* the Entry Operation the step invokes, "none" when it invokes none
Invoked == IF Len(ops') > Len(ops) THEN ops'[Len(ops')].op ELSE "none"

\* C11: for a source entry the source pass invokes create file / create
\* directory exactly when nothing exists at the replica path; it compares and
\* updates only when the source entry and the replica entry are both files,
\* and updates exactly when they are not identical; otherwise it does nothing
C11_SourceDecisionRule ==
    [][SourceEntryStep =>
        LET sp == Head(entries)
            rp == Twin(sp, source, replica)
        IN  /\ Invoked = "create_file" <=> (rp \notin DOMAIN fs /\ fs[sp].kind = "file")
            /\ Invoked = "create_directory" <=> (rp \notin DOMAIN fs /\ fs[sp].kind = "dir")
            /\ Invoked = "copy_file" <=>
                    /\ rp \in DOMAIN fs
                    /\ fs[sp].kind = "file"
                    /\ fs[rp].kind = "file"
                    /\ ~SameForMode(fs, sp, rp)
            /\ Invoked \in {"create_file", "create_directory", "copy_file", "none"}
            /\ Invoked = "none" => last' = last]_vars

\* C13: a run starts with an empty visited set; the source pass records every
\* entry it takes, whether an operation follows, succeeds or raises; when the
\* source pass is over the set is exactly the entries of the source tree; an
\* entry removed from the source between two runs is not in the later run's
\* set and its replica counterpart is gone when that run has completed
C13_VisitedSet ==
    [][/\ (pc = "idle" /\ pc' = "source") => source_files' = {}
       /\ SourceEntryStep => source_files' = source_files \cup {Head(entries)}
       /\ (pc = "source" /\ pc' = "replica") => source_files' = Under(fs', source)
       /\ (pc = "replica" /\ pc' = "idle") =>
            \A sp \in before.rewritten \ DOMAIN fs0 :
                /\ sp \notin source_files'
                /\ Twin(sp, source, replica) \notin DOMAIN fs']_vars

\* a source entry that the run before had mirrored was removed, and the run
\* after deleted its replica counterpart as an orphan
C13_Witness ==
    /\ JustCompleted
    /\ before.outcome = "completed"
    /\ \E sp \in before.rewritten \ DOMAIN fs0 :
        /\ Twin(sp, source, replica) \in DOMAIN fs0
        /\ \E i \in 1..Len(ops) :
            /\ ops[i].op \in Deletes
            /\ ops[i].ok
            /\ ops[i].path = Twin(sp, source, replica)

\* C14: after the replica pass has deleted a directory with everything below
\* it, it invokes no delete on anything that was below it; a delete of the
\* replica pass raises only for a reason outside the trees (its target is
\* there, of the kind the operation takes); and a run that completed has taken
\* every entry that is left in the replica
C14_RecursiveDeletionTolerated ==
    /\ \A i, j \in 1..Len(ops) :
            (i < j /\ ops[i].op = "delete_directory" /\ ops[i].ok /\ ops[j].op \in Deletes)
                => ~IsPrefix(ops[i].path, ops[j].path)
    /\ \A j \in 1..Len(ops) :
            (ops[j].op \in Deletes /\ ~ops[j].ok)
                => ~Perform(ops[j].op, fs, ops[j].path, ops[j].path).err
    /\ (pc = "idle" /\ last = "completed") => Under(fs0, replica) \cap DOMAIN fs \subseteq replica_files

\* an orphaned directory two levels deep was deleted in one operation and the
\* pass went on to delete another orphan; the run completed
C14_Witness ==
    /\ JustCompleted
    /\ \E i, j \in 1..Len(ops) :
        /\ i < j
        /\ ops[i].op = "delete_directory" /\ ops[i].ok
        /\ ops[j].op \in Deletes /\ ops[j].ok
        /\ \E d \in DOMAIN fs0 : IsPrefix(ops[i].path, d) /\ Len(d) = Len(ops[i].path) + 2

\* C15: the source pass takes every source directory before anything below
\* it, and whenever it invokes create file or create directory for a path the
\* parent of that path is already a directory of the replica, so that the
\* operation creates nothing but the path itself
C15_ParentBeforeDescendants ==
    [][SourceEntryStep =>
        LET sp == Head(entries)
            rp == Twin(sp, source, replica)
        IN  /\ dirname(sp) = source \/ dirname(sp) \in source_files
            /\ Invoked \in {"create_file", "create_directory"} =>
                    /\ isdir(fs, dirname(rp))
                    /\ DOMAIN fs' \ DOMAIN fs \subseteq {rp}]_vars

\* no relative path is a file in one tree of f and a directory in the other
NoTypeConflict(f) ==
    \A sp \in Under(f, source) :
        Twin(sp, source, replica) \in DOMAIN f => f[Twin(sp, source, replica)].kind = f[sp].kind

\* C17: a run over two present, disjoint roots whose trees have no type
\* conflict ends with an error only when a filesystem call failed for an
\* external reason (the operation that raised would succeed on the trees as
\* they are); and when it has completed, the replica has exactly the source's
\* relative paths, each of the same kind, every file pair identical for the
\* comparison mode
C17_ExactMirror ==
    /\ (JustCompleted /\ NoTypeConflict(fs0)) => Mirrors(fs)
    /\ (pc = "dead" /\ last = "failed" /\ NoTypeConflict(fs0)) =>
            /\ ops # <<>>
            /\ ~ops[Len(ops)].ok
            /\ ~Perform(ops[Len(ops)].op, fs,
                        Twin(ops[Len(ops)].path, replica, source), ops[Len(ops)].path).err

\* a completed run over trees without type conflict that had to create a
\* directory and a file and to delete an orphan
C17_Witness ==
    /\ JustCompleted
    /\ NoTypeConflict(fs0)
    /\ HasOp({"create_file"}) /\ HasOp({"create_directory"}) /\ HasOp(Deletes)
    /\ Mirrors(fs)

\* neither root lies inside the other
Disjoint(a, b) == ~IsPrefix(a, b) /\ ~IsPrefix(b, a)

\* the tree of f at root: the root and everything below it
Tree(f, root) == [p \in {q \in DOMAIN f : IsPrefix(root, q)} |-> f[p]]

\* the step is a change made by the user between runs (Rewrite, Remove,
\* CreateRoot), not a step of the program
UserStep == pc = "idle" /\ pc' = "idle" /\ touched' # {}

\* C18: with neither root inside the other, no step of the program changes
\* the source tree (only the user's changes between runs do), and during and
\* after a run, completed or aborted, the source tree is what it was when the
\* run began
C18_SourceReadOnly ==
    /\ [][(Disjoint(source, replica) /\ ~UserStep)
            => Tree(fs', source) = Tree(fs, source)]_vars
    /\ []((Disjoint(source, replica) /\ touched = {}) => Tree(fs, source) = Tree(fs0, source))

\* a run that had created entries in the replica was aborted by a failing
\* delete
C18_Witness ==
    /\ Disjoint(source, replica)
    /\ pc = "dead"
    /\ last = "failed"
    /\ Tree(fs, source) = Tree(fs0, source)
    /\ \E i \in 1..Len(ops) : ops[i].op = "create_file" /\ ops[i].ok
    /\ \E i \in 1..Len(ops) : ops[i].op \in Deletes /\ ~ops[i].ok

(***************************************************************************)
(* The functions called on their own, as the unit tests call them: one     *)
(* call on a filesystem drawn from the initial trees, then the return.     *)
(* ops holds the call and its result, fs0 the filesystem before the call.  *)
(***************************************************************************)
UnitInit ==
    /\ source = <<"S">>
    /\ replica = <<"R">>
    /\ use_checksum \in BOOLEAN
    /\ fs \in {Place(<<"S">>, ts) @@ Place(<<"R">>, tr) :
                ts \in Trees(SourceFileSet), tr \in Trees(ReplicaFileSet)}
    /\ pc = "call"
    /\ stack = <<>>
    /\ entries = <<>>
    /\ source_files = {}
    /\ replica_files = {}
    /\ log = <<>>
    /\ ops = <<>>
    /\ fs0 = fs
    /\ last = "none"
    /\ before = [outcome |-> "none", nops |-> 0, rewritten |-> {}]
    /\ touched = {}
    /\ rewrites = 0

\* create_directory(replica_dir) on any path of the shape below the replica
CallCreateDirectory ==
    /\ pc = "call"
    /\ \E replica_dir \in {join(replica, r) : r \in Shape} :
        LET r == create_directory(fs, replica_dir)
        IN  /\ fs' = r.fs
            /\ ops' = <<[op |-> "create_directory", path |-> replica_dir, ok |-> ~r.err]>>
            /\ log' = IF r.err THEN log ELSE <<Info(Message("create_directory"), replica_dir)>>
    /\ pc' = "returned"
    /\ UNCHANGED <<source, replica, use_checksum, stack, entries, source_files,
                   replica_files, fs0, last, before, touched, rewrites>>

\* are_files_identical(file1, file2, use_checksum) on any two files; ok holds
\* the boolean it returns
CallAreFilesIdentical ==
    /\ pc = "call"
    /\ \E file1, file2 \in {p \in DOMAIN fs : fs[p].kind = "file"} :
        ops' = <<[op |-> "are_files_identical", path |-> <<file1, file2>>,
                  ok |-> are_files_identical(fs, file1, file2, use_checksum) = "true"]>>
    /\ pc' = "returned"
    /\ UNCHANGED <<fs, source, replica, use_checksum, stack, entries, source_files,
                   replica_files, log, fs0, last, before, touched, rewrites>>

UnitNext ==
    \/ CallCreateDirectory
    \/ CallAreFilesIdentical

UnitSpec == UnitInit /\ [][UnitNext]_vars

C16_CreateDirectoryNonRecursive ==
    (pc = "returned" /\ ops[1].op = "create_directory") =>
        LET replica_dir == ops[1].path
        IN  /\ replica_dir \in DOMAIN fs0 => (~ops[1].ok /\ fs = fs0)
            /\ (replica_dir \notin DOMAIN fs0 /\ dirname(replica_dir) \notin DOMAIN fs0)
                    => dirname(replica_dir) \notin DOMAIN fs
            /\ (replica_dir \notin DOMAIN fs0 /\ isdir(fs0, dirname(replica_dir)))
                    => (ops[1].ok /\ fs = With(fs0, replica_dir, Dir))

(***************************************************************************)
(* Runs under every placement of the two roots: apart, the replica inside  *)
(* the source tree (directly below the source root, and two levels below), *)
(* and the source inside the replica tree.  The trees are small ones over  *)
(* a and a/c.  The process, once a run has begun, keeps taking steps.      *)
(***************************************************************************)
TermFileSet == {File(<<1>>, 1), File(<<2>>, 1)}

TermTrees(F) == {t \in Trees(F) : t[<<"b">>] = None /\ t[<<"a", "c", "d">>] = None}

\* [source, replica, fs] for every placement
Placements ==
    {[source |-> <<"S">>, replica |-> <<"R">>, fs |-> Place(<<"S">>, ts) @@ Place(<<"R">>, tr)] :
        ts \in TermTrees(SourceFileSet), tr \in TermTrees(TermFileSet)}
    \cup {[source |-> <<"S">>, replica |-> <<"R">>, fs |-> Place(<<"S">>, ts)] :
        ts \in TermTrees(SourceFileSet)}
    \cup {[source |-> <<"S">>, replica |-> <<"R">>, fs |-> Place(<<"R">>, tr)] :
        tr \in TermTrees(TermFileSet)}
    \cup {[source |-> <<"S">>, replica |-> <<"S", "R">>,
           fs |-> Place(<<"S">>, ts) @@ Place(<<"S", "R">>, tr)] :
        ts \in TermTrees(SourceFileSet), tr \in TermTrees(TermFileSet)}
    \cup {[source |-> <<"S">>, replica |-> <<"S", "a", "R">>,
           fs |-> Place(<<"S">>, ts) @@ Place(<<"S", "a", "R">>, tr)] :
        ts \in {t \in TermTrees(SourceFileSet) : t[<<"a">>] = Dir}, tr \in TermTrees(TermFileSet)}
    \cup {[source |-> <<"R", "S">>, replica |-> <<"R">>,
           fs |-> Place(<<"R">>, tr) @@ Place(<<"R", "S">>, ts)] :
        ts \in TermTrees(SourceFileSet), tr \in TermTrees(TermFileSet)}

TermInit ==
    /\ \E pl \in Placements :
        /\ source = pl.source
        /\ replica = pl.replica
        /\ fs = pl.fs
    /\ use_checksum \in BOOLEAN
    /\ pc = "idle"
    /\ stack = <<>>
    /\ entries = <<>>
    /\ source_files = {}
    /\ replica_files = {}
    /\ log = <<>>
    /\ ops = <<>>
    /\ fs0 = fs
    /\ last = "none"
    /\ before = [outcome |-> "none", nops |-> 0, rewritten |-> {}]
    /\ touched = {}
    /\ rewrites = 0

\* a step of the run in progress: sync_folders is sequential and blocking
RunStep ==
    \/ SourceWalk
    \/ SourceEntry
    \/ SourceDone
    \/ ReplicaWalk
    \/ ReplicaEntry
    \/ SyncEnd

TermSpec == TermInit /\ [][Next]_vars /\ WF_vars(RunStep)

\* C19: under every placement of the roots a run that has begun ends, and a
\* run that ends with an unhandled error ends with the error of an Entry
\* Operation
C19_Termination ==
    /\ (last = "running") ~> (last \in {"completed", "failed", "interrupted"})
    /\ []((pc = "dead" /\ last = "failed") => (ops # <<>> /\ ~ops[Len(ops)].ok))

====
